---------------------------- MODULE Spec2Model ----------------------------
(***************************************************************************)
(* A model of redis-clone-rs: the process start-up of main.rs (optional    *)
(* replica handshake, then the listener), the accept loop and the          *)
(* per-connection read/dispatch/write loop of node/command_listener.rs,    *)
(* the RESP command parser of resp_parser/commands.rs and the shared       *)
(* store behind its tokio Mutex.                                           *)
(*                                                                         *)
(* Bytes are one-character strings; a buffer is a sequence of bytes.       *)
(***************************************************************************)
EXTENDS Integers, Sequences, FiniteSets, TLC

(***************************************************************************)
(* Program constants (main.rs).                                            *)
(***************************************************************************)
TCP_READ_TIMEOUT_MAX_RETRIES == 3

\* command_listener.rs:60: `let mut request_buffer: [u8; 1024]`.
REQUEST_BUFFER_LEN == 1024

(***************************************************************************)
(* The slots of concurrently open client connections, and the keys and     *)
(* values the modelled clients use.                                        *)
(***************************************************************************)
Conns == {1, 2}

CR == "\r"
LF == "\n"
CRLF_BYTES == <<CR, LF>>
NUL == "NUL"

ARRAYS_BYTE == "*"
BULK_STRINGS_BYTE == "$"
SIMPLE_STRINGS_BYTE == "+"

(***************************************************************************)
(* Decimal text <-> number.                                                *)
(***************************************************************************)
Digits == <<"0", "1", "2", "3", "4", "5", "6", "7", "8", "9">>

IsDigit(ch) == \E i \in 1..10 : Digits[i] = ch

DigitVal(ch) == (CHOOSE i \in 1..10 : Digits[i] = ch) - 1

RECURSIVE DigitsValue(_)
DigitsValue(s) ==
    IF s = <<>> THEN 0
    ELSE 10 * DigitsValue(SubSeq(s, 1, Len(s) - 1)) + DigitVal(s[Len(s)])

AllDigits(s) == s # <<>> /\ \A i \in 1..Len(s) : IsDigit(s[i])

\* str::parse::<u8>(): an optional '+', then one or more digits, value at
\* most 255; -1 stands for the Err result.
ParseU8(s) ==
    LET body == IF s # <<>> /\ s[1] = "+" THEN Tail(s) ELSE s
    IN  IF AllDigits(body) /\ Len(body) <= 4 /\ DigitsValue(body) <= 255
        THEN DigitsValue(body)
        ELSE -1

\* str::parse::<usize>() as used for a bulk string's length.
ParseLen(s) == IF AllDigits(s) /\ Len(s) <= 4 THEN DigitsValue(s) ELSE -1

RECURSIVE ToDecimal(_)
ToDecimal(n) ==
    IF n < 10 THEN <<Digits[n + 1]>>
    ELSE ToDecimal(n \div 10) \o <<Digits[(n % 10) + 1]>>

(***************************************************************************)
(* ASCII upper-casing of the command name.                                 *)
(***************************************************************************)
LowerLetters ==
    <<"a", "b", "c", "d", "e", "f", "g", "h", "i", "j", "k", "l", "m",
      "n", "o", "p", "q", "r", "s", "t", "u", "v", "w", "x", "y", "z">>

UpperLetters ==
    <<"A", "B", "C", "D", "E", "F", "G", "H", "I", "J", "K", "L", "M",
      "N", "O", "P", "Q", "R", "S", "T", "U", "V", "W", "X", "Y", "Z">>

to_ascii_uppercase_char(ch) ==
    IF \E i \in 1..26 : LowerLetters[i] = ch
    THEN UpperLetters[CHOOSE i \in 1..26 : LowerLetters[i] = ch]
    ELSE ch

\* The name left as the client wrote it.
to_ascii_uppercase_skipped(s) == s

to_ascii_uppercase(s) == [i \in 1..Len(s) |-> to_ascii_uppercase_char(s[i])]

to_ascii_lowercase_char(ch) ==
    IF \E i \in 1..26 : UpperLetters[i] = ch
    THEN LowerLetters[CHOOSE i \in 1..26 : UpperLetters[i] = ch]
    ELSE ch

\* Every way of writing s in upper and lower case.
RECURSIVE CaseVariants(_)
CaseVariants(s) ==
    IF s = <<>> THEN {<<>>}
    ELSE {<<ch>> \o rest :
              ch \in {to_ascii_uppercase_char(s[1]), to_ascii_lowercase_char(s[1])},
              rest \in CaseVariants(Tail(s))}

(***************************************************************************)
(* RespCommandNames.                                                       *)
(***************************************************************************)
PING == <<"P", "I", "N", "G">>
ECHO == <<"E", "C", "H", "O">>
SET == <<"S", "E", "T">>
GET == <<"G", "E", "T">>
INFO == <<"I", "N", "F", "O">>
REPLCONF == <<"R", "E", "P", "L", "C", "O", "N", "F">>
PSYNC == <<"P", "S", "Y", "N", "C">>

(***************************************************************************)
(* Encoders of the wire format.                                            *)
(***************************************************************************)
EncodeSimpleString(text) == <<SIMPLE_STRINGS_BYTE>> \o text \o CRLF_BYTES

EncodeBulkString(payload) ==
    <<BULK_STRINGS_BYTE>> \o ToDecimal(Len(payload)) \o CRLF_BYTES
        \o payload \o CRLF_BYTES

NullBulkString == <<BULK_STRINGS_BYTE, "-", "1">> \o CRLF_BYTES

RECURSIVE EncodeBulkStrings(_)
EncodeBulkStrings(parts) ==
    IF parts = <<>> THEN <<>>
    ELSE EncodeBulkString(Head(parts)) \o EncodeBulkStrings(Tail(parts))

\* A request frame: an array of bulk strings.
EncodeArray(parts) ==
    <<ARRAYS_BYTE>> \o ToDecimal(Len(parts)) \o CRLF_BYTES
        \o EncodeBulkStrings(parts)


(***************************************************************************)
(* resp_parser: helpers.                                                   *)
(***************************************************************************)
\* The index of the first CR LF at or after position `from`, 0 when none.
FirstCrlfFrom(s, from) ==
    LET hits == {i \in from..(Len(s) - 1) : s[i] = CR /\ s[i + 1] = LF}
    IN  IF hits = {} THEN 0 ELSE CHOOSE i \in hits : \A j \in hits : i <= j

\* utils::split_u8_slice_once(slice, CRLF): the bytes before and after the
\* first CR LF; found = FALSE stands for None.
split_u8_slice_once(s) ==
    LET at == FirstCrlfFrom(s, 1)
    IN  IF at = 0
        THEN [found |-> FALSE, before |-> <<>>, after |-> <<>>]
        ELSE [found |-> TRUE,
              before |-> SubSeq(s, 1, at - 1),
              after |-> SubSeq(s, at + 2, Len(s))]

\* data_types::move_resp_bulk_string: reads "$<len>\r\n<len bytes>\r\n"
\* starting at chars[pos]; `next` is the position of the byte after it.
move_resp_bulk_string(chars, pos) ==
    LET failed == [ok |-> FALSE, value |-> <<>>, next |-> pos]
        eol == FirstCrlfFrom(chars, pos + 1)
        len == IF eol = 0 THEN -1 ELSE ParseLen(SubSeq(chars, pos + 1, eol - 1))
        first == eol + 2
        last == eol + 1 + len
    IN  IF pos > Len(chars) \/ chars[pos] # BULK_STRINGS_BYTE THEN failed
        ELSE IF len < 0 THEN failed
        ELSE IF last + 2 > Len(chars) THEN failed
        ELSE IF chars[last + 1] # CR \/ chars[last + 2] # LF THEN failed
        ELSE [ok |-> TRUE, value |-> SubSeq(chars, first, last), next |-> last + 3]

(***************************************************************************)
(* resp_parser::commands.                                                  *)
(*                                                                         *)
(* A parse result is [kind, error, name, parameters, count]: kind "Ok"     *)
(* with the RespCommand, kind "Err" with the error's kind, or kind         *)
(* "Panic"; count is the parameter_count that was given to                 *)
(* parse_resp_multi_param_command_body, -1 when it was not called.         *)
(***************************************************************************)
ParseOk(name, parameters) ==
    [kind |-> "Ok", error |-> "", name |-> name, parameters |-> parameters,
     count |-> Len(parameters)]

ParseErr(error) ==
    [kind |-> "Err", error |-> error, name |-> <<>>, parameters |-> <<>>,
     count |-> -1]

ParsePanic ==
    [kind |-> "Panic", error |-> "", name |-> <<>>, parameters |-> <<>>,
     count |-> -1]

\* The loop of parse_resp_multi_param_command_body: `left` more bulk strings
\* from position pos, appended to acc.
RECURSIVE move_parameters(_, _, _, _)
move_parameters(chars, pos, left, acc) ==
    IF left = 0 THEN [ok |-> TRUE, parameters |-> acc]
    ELSE LET param == move_resp_bulk_string(chars, pos)
         IN  IF ~param.ok THEN [ok |-> FALSE, parameters |-> <<>>]
             ELSE move_parameters(chars, param.next, left - 1,
                                  Append(acc, param.value))

parse_resp_multi_param_command_body(command_name, parameter_count, chars, pos) ==
    LET body == move_parameters(chars, pos, parameter_count, <<>>)
    IN  IF body.ok THEN ParseOk(command_name, body.parameters)
        ELSE [ParseErr("MalformedRequest") EXCEPT !.count = parameter_count]

\* The name counted among the parameters.
parameter_count_with_name(num_of_parts, overflow_checks) ==
    [panic |-> FALSE, count |-> num_of_parts]

\* `num_of_parts - 1` on a u8: with overflow checks (a debug build) 0 - 1
\* panics, without them (a release build) it wraps to 255.
parameter_count_of(num_of_parts, overflow_checks) ==
    IF num_of_parts >= 1 THEN [panic |-> FALSE, count |-> num_of_parts - 1]
    ELSE IF overflow_checks THEN [panic |-> TRUE, count |-> 0]
    ELSE [panic |-> FALSE, count |-> (num_of_parts - 1) % 256]

parse_resp_proc_command(buffer, overflow_checks) ==
    LET raw_command == split_u8_slice_once(buffer)
        num_of_parts == Tail(raw_command.before)
        chars == raw_command.after
        command_name_string == move_resp_bulk_string(chars, 1)
        command_name == to_ascii_uppercase(command_name_string.value)
        parts == ParseU8(num_of_parts)
        parameter_count == parameter_count_of(parts, overflow_checks)
    IN  IF Len(buffer) = 0 THEN ParseErr("EmptyRequest")
        ELSE IF buffer[1] # ARRAYS_BYTE THEN ParseErr("MalformedRequest")
        ELSE IF ~raw_command.found THEN ParseErr("MalformedRequest")
        ELSE IF Len(raw_command.before) < 2 THEN ParseErr("MalformedRequest")
        ELSE IF ~command_name_string.ok THEN ParseErr("MalformedRequest")
        ELSE IF command_name = <<>> THEN ParseErr("MalformedRequest")
        ELSE IF parts < 0 THEN ParseErr("MalformedRequest")
        ELSE IF parameter_count.panic THEN ParsePanic
        ELSE parse_resp_multi_param_command_body(
                 command_name, parameter_count.count, chars,
                 command_name_string.next)


(***************************************************************************)
(* The requests the modelled clients send: what one successful read puts   *)
(* into request_buffer.                                                    *)
(***************************************************************************)
KeyA == <<"a">>
KeyB == <<"b">>
Keys == {KeyA, KeyB}
ValueX == <<"x">>
ValueY == <<"y">>
PX == <<"P", "X">>

FramePing == EncodeArray(<< <<"p", "i", "N", "g">> >>)
FrameEcho == EncodeArray(<< <<"E", "c", "H", "o">>, ValueX >>)
FrameSetAX == EncodeArray(<< <<"s", "E", "T">>, KeyA, ValueX >>)
FrameSetAYPx == EncodeArray(<< SET, KeyA, ValueY, <<"p", "x">>, <<"1">> >>)
FrameSetBX == EncodeArray(<< SET, KeyB, ValueX >>)
FrameGetA == EncodeArray(<< <<"g", "E", "T">>, KeyA >>)
FrameInfo == EncodeArray(<< INFO >>)
FrameReplconf == EncodeArray(<< REPLCONF, <<"c", "a", "p", "a">>, <<"2">> >>)
FramePsync == EncodeArray(<< PSYNC, <<"?">>, <<"-", "1">> >>)
\* An unsupported command, a request that is not an array, and GET without
\* its key.
FrameUnsupported == EncodeArray(<< <<"D", "E", "L">>, KeyA >>)
FrameNotArray == PING \o CRLF_BYTES
FrameGetNoKey == EncodeArray(<< GET >>)

StoreFrames == {FrameSetAX, FrameSetAYPx, FrameSetBX, FrameGetA, FrameInfo,
               FramePsync}
\* A frame that declares 0 elements, and two requests in one read.
FrameCountZero == <<ARRAYS_BYTE, "0">> \o CRLF_BYTES \o EncodeBulkStrings(<<PING>>)
FramePingThenEcho == FramePing \o FrameEcho

BadFrames == {FrameUnsupported, FrameNotArray, FrameGetNoKey, FrameCountZero}
Frames == {FramePing, FrameEcho, FrameReplconf, FramePingThenEcho}
              \cup StoreFrames \cup BadFrames

(***************************************************************************)
(* The shared store (models::db::InMemoryDb).  An entry is a value with    *)
(* the state of its expiry: "none" (set without expiry), "pending" (the    *)
(* deadline lies ahead) or "passed".                                       *)
(***************************************************************************)
NoEntry == [value |-> <<>>, expiry |-> "absent"]
Entry(value, expiry) == [value |-> value, expiry |-> expiry]
EmptyEntries == [k \in Keys |-> NoEntry]

MasterReplId == <<"i", "d">>
RoleMasterText == <<"r", "o", "l", "e", ":", "m", "a", "s", "t", "e", "r">>
RoleReplicaText == <<"r", "o", "l", "e", ":", "s", "l", "a", "v", "e">>
FullResyncText ==
    <<"F", "U", "L", "L", "R", "E", "S", "Y", "N", "C", " ">> \o MasterReplId
        \o <<" ", "0">>

(***************************************************************************)
(* node::command_handlers.                                                 *)
(***************************************************************************)
ArityOk(name, parameters) ==
    CASE name = PING -> TRUE
      [] name = ECHO -> Len(parameters) = 1
      [] name = SET -> Len(parameters) >= 2
      [] name = GET -> Len(parameters) = 1
      [] name = INFO -> Len(parameters) <= 1
      [] name = REPLCONF -> Len(parameters) >= 2
      [] name = PSYNC -> Len(parameters) = 2
      [] OTHER -> FALSE

handle_command_ping(parameters) == EncodeSimpleString(<<"P", "O", "N", "G">>)

handle_command_echo(parameters) == EncodeBulkString(parameters[1])

handle_command_replconf(parameters) == EncodeSimpleString(<<"O", "K">>)

\* SET key value [PX ms]: the entry written and the reply.
SetExpiry(parameters) ==
    IF Len(parameters) >= 4 /\ to_ascii_uppercase(parameters[3]) = PX
    THEN "pending"
    ELSE "none"

handle_command_set_async(entries, parameters) ==
    [entries |-> [entries EXCEPT ![parameters[1]] =
                      Entry(parameters[2], SetExpiry(parameters))],
     response |-> EncodeSimpleString(<<"O", "K">>)]

\* GET key: an entry whose deadline has passed reads as absent, and the
\* read may evict it.
handle_command_get_async(entries, parameters, evict) ==
    LET e == entries[parameters[1]]
    IN  IF e.expiry \in {"none", "pending"}
        THEN [entries |-> entries, response |-> EncodeBulkString(e.value)]
        ELSE [entries |-> IF e.expiry = "passed" /\ evict
                          THEN [entries EXCEPT ![parameters[1]] = NoEntry]
                          ELSE entries,
              response |-> NullBulkString]

handle_command_info(entries, replica) ==
    [entries |-> entries,
     response |-> EncodeBulkString(IF replica THEN RoleReplicaText
                                   ELSE RoleMasterText)]

\* PSYNC emptying the store for the snapshot to come.
handle_command_psync_resets(entries) ==
    [entries |-> EmptyEntries, response |-> EncodeSimpleString(FullResyncText)]

handle_command_psync(entries) ==
    [entries |-> entries, response |-> EncodeSimpleString(FullResyncText)]


(***************************************************************************)
(* State.                                                                  *)
(***************************************************************************)
VARIABLES
    is_replica,             \* main: cli_flags.replica_of.is_some()
    main_pc,                \* where main / command_listener::run stands
    hs_step,                \* replica_handshake::run: its step
    hs_sent,                \* the commands it has sent to the master
    hs_replies,             \* the replies it has read from the master
    handshake_error_logged, \* main printed "Error while performing handshake"
    handshake_runs,         \* how often replica_handshake::run was called
    mem_db,                 \* the entries of each InMemoryDb allocation
    lock,                   \* the holder of the store's Mutex, 0 when free
    last_set,               \* per key: what the most recent SET handler that
                            \* completed wrote (its deadline passing with time)
    mem_db_arc_pointer,     \* per connection task: the allocation of its Arc
    pc,                     \* per connection task: where its loop stands
    num_of_retries,         \* per connection task: the local of that name
    consecutive_timeouts,   \* per connection: timeouts since the last read
                            \* that returned (or since accept)
    request_buffer,         \* per connection: the bytes of the request
    command_response,       \* per connection: handle_command's result
    read_result,            \* per connection: what its last read returned
    exit,                   \* per connection: how the loop ended
    in_flight,              \* per connection: non-empty reads minus
                            \* responses written
    context_pc,             \* one cycle of the loop body taken alone: where
                            \* it stands
    checked_build,          \* whether the build checks integer overflow
    context_byte_count,     \* what its read returned
    tcp_bytes,              \* the bytes the read put into request_buffer
    context_request,        \* AppContext: request.buffer[..byte_count]
    context_resp_command,   \* AppContext: request.resp_command
    body_parameter_count,   \* the count given to
                            \* parse_resp_multi_param_command_body
    context_response,       \* AppContext: the response
    context_db,             \* the entries of the store of that call
    handle_command_result   \* "Ok", the kind of the error, or "Panic"

main_vars == <<is_replica, main_pc, hs_step, hs_sent, hs_replies,
               handshake_error_logged, handshake_runs>>
store_vars == <<mem_db, lock, last_set>>
conn_vars == <<mem_db_arc_pointer, pc, num_of_retries, consecutive_timeouts,
               request_buffer, command_response, read_result, exit,
               in_flight>>
context_vars == <<context_pc, checked_build, context_byte_count, tcp_bytes,
                  context_request, context_resp_command, body_parameter_count,
                  context_response, context_db, handle_command_result>>
vars == <<main_vars, store_vars, conn_vars, context_vars>>

\* The allocation main creates is 0.
MainDb == 0
DbIds == {MainDb} \cup Conns

\* The command of a context that has not parsed its request.
NoCommand ==
    [kind |-> "none", error |-> "", name |-> <<>>, parameters |-> <<>>,
     count |-> -1]

\* The process as main starts it.
ProgramInit ==
    /\ is_replica \in BOOLEAN
    /\ main_pc = "main"
    /\ hs_step = "None"
    /\ hs_sent = <<>>
    /\ hs_replies = <<>>
    /\ handshake_error_logged = FALSE
    /\ handshake_runs = 0
    /\ mem_db = [d \in DbIds |-> EmptyEntries]
    /\ lock = 0
    /\ last_set = EmptyEntries
    /\ mem_db_arc_pointer = [c \in Conns |-> MainDb]
    /\ pc = [c \in Conns |-> "unaccepted"]
    /\ num_of_retries = [c \in Conns |-> 0]
    /\ consecutive_timeouts = [c \in Conns |-> 0]
    /\ request_buffer = [c \in Conns |-> <<>>]
    /\ command_response = [c \in Conns |-> <<>>]
    /\ read_result = [c \in Conns |-> "none"]
    /\ exit = [c \in Conns |-> "none"]
    /\ in_flight = [c \in Conns |-> 0]

\* No cycle is taken alone.
NoContext ==
    /\ context_pc = "none"
    /\ checked_build = FALSE
    /\ context_byte_count = 0
    /\ tcp_bytes = <<>>
    /\ context_request = <<>>
    /\ context_resp_command = NoCommand
    /\ body_parameter_count = -1
    /\ context_response = <<>>
    /\ context_db = EmptyEntries
    /\ handle_command_result = "none"

Init == ProgramInit /\ NoContext

(***************************************************************************)
(* node::replica_handshake::run.                                           *)
(***************************************************************************)
HsPing == <<"PING">>
HsReplconfPort == <<"REPLCONF", "listening-port", "<port>">>
HsReplconfCapa == <<"REPLCONF", "capa", "psync2">>
HsPsync == <<"PSYNC", "?", "-1">>
HandshakeCommands == <<HsPing, HsReplconfPort, HsReplconfCapa, HsPsync>>

HsSendSteps == <<"SendPing", "SendReplconfPort", "SendReplconfCapa", "SendPsync">>
HsAwaitSteps == <<"AwaitPong", "AwaitOkPort", "AwaitOkCapa", "AwaitFullresync">>
HsExpectedReplies == <<"+PONG", "+OK", "+OK", "+FULLRESYNC">>

\* What a read from the master stream may return: a reply, or an error of
\* the connection.
MasterReplies == {"+PONG", "+OK", "+FULLRESYNC", "-ERR", "io_error"}

HsIndex(steps, step) == CHOOSE i \in 1..4 : steps[i] = step

\* The handshake going on whatever the master replied.
HsAfterReplyUnchecked(i, reply) ==
    IF i = 4 THEN "Done" ELSE HsSendSteps[i + 1]

\* The step after reading `reply` in await step number i.
HsAfterReply(i, reply) ==
    IF reply = HsExpectedReplies[i]
    THEN IF i = 4 THEN "Done" ELSE HsSendSteps[i + 1]
    ELSE "Failed"

HsConnect ==
    /\ main_pc = "handshake"
    /\ hs_step = "Connect"
    /\ \E connected \in BOOLEAN :
           hs_step' = IF connected THEN "SendPing" ELSE "Failed"
    /\ UNCHANGED <<is_replica, main_pc, hs_sent, hs_replies,
                   handshake_error_logged, handshake_runs>>
    /\ UNCHANGED <<store_vars, conn_vars>>
    /\ UNCHANGED context_vars

HsSend ==
    /\ main_pc = "handshake"
    /\ \E i \in 1..4 :
           /\ hs_step = HsSendSteps[i]
           /\ hs_sent' = Append(hs_sent, HandshakeCommands[i])
           /\ hs_step' = HsAwaitSteps[i]
    /\ UNCHANGED <<is_replica, main_pc, hs_replies, handshake_error_logged,
                   handshake_runs>>
    /\ UNCHANGED <<store_vars, conn_vars>>
    /\ UNCHANGED context_vars

HsAwait ==
    /\ main_pc = "handshake"
    /\ \E i \in 1..4, reply \in MasterReplies :
           /\ hs_step = HsAwaitSteps[i]
           /\ hs_replies' = Append(hs_replies, reply)
           /\ hs_step' = HsAfterReply(i, reply)
    /\ UNCHANGED <<is_replica, main_pc, hs_sent, handshake_error_logged,
                   handshake_runs>>
    /\ UNCHANGED <<store_vars, conn_vars>>
    /\ UNCHANGED context_vars

(***************************************************************************)
(* main.                                                                   *)
(***************************************************************************)
\* The handshake running whatever the mode.
RunsHandshakeAlways(replica) == TRUE

\* main.rs:31: `if is_replica`.
RunsHandshake(replica) == replica

\* main returning the handshake's error (`?` in place of the match).
AfterHandshakePropagated(result) ==
    IF result = "Err" THEN "exited_handshake_error" ELSE "listener_run"

\* main.rs:32-35: where main goes on once the handshake returned `result`.
AfterHandshake(result) == "listener_run"

MainStartHandshake ==
    /\ main_pc = "main"
    /\ RunsHandshake(is_replica)
    /\ main_pc' = "handshake"
    /\ hs_step' = "Connect"
    /\ handshake_runs' = handshake_runs + 1
    /\ UNCHANGED <<is_replica, hs_sent, hs_replies, handshake_error_logged>>
    /\ UNCHANGED <<store_vars, conn_vars>>
    /\ UNCHANGED context_vars

MainSkipHandshake ==
    /\ main_pc = "main"
    /\ ~RunsHandshake(is_replica)
    /\ main_pc' = "listener_run"
    /\ UNCHANGED <<is_replica, hs_step, hs_sent, hs_replies,
                   handshake_error_logged, handshake_runs>>
    /\ UNCHANGED <<store_vars, conn_vars>>
    /\ UNCHANGED context_vars

\* The handshake returns; its locals and the master stream are dropped.
MainHandshakeReturn ==
    /\ main_pc = "handshake"
    /\ hs_step \in {"Done", "Failed"}
    /\ LET result == IF hs_step = "Done" THEN "Ok" ELSE "Err"
       IN  /\ handshake_error_logged' = (result = "Err")
           /\ main_pc' = AfterHandshake(result)
    /\ hs_step' = "None"
    /\ hs_sent' = <<>>
    /\ hs_replies' = <<>>
    /\ UNCHANGED <<is_replica, handshake_runs>>
    /\ UNCHANGED <<store_vars, conn_vars>>
    /\ UNCHANGED context_vars


(***************************************************************************)
(* node::command_listener::run.                                            *)
(***************************************************************************)
\* The task getting a store of its own instead of a pointer to main's.
SpawnedDbCopy(c) == c

\* command_listener.rs:33: the task's Arc points to main's allocation.
SpawnedDbPointer(c) == MainDb

\* The listener giving up when a connection task ended with an error.
AfterConnectionResultPropagated(listener_pc, result) ==
    IF result \in {"Err", "Panic"} THEN "exited_connection_error"
    ELSE listener_pc

\* command_listener.rs:36-43: the listener after a connection task ended
\* with `result`.
AfterConnectionResult(listener_pc, result) == listener_pc

\* command_listener.rs:46-48: the listener after accept() failed.
AfterAcceptError(listener_pc) == listener_pc

ListenerBind ==
    /\ main_pc = "listener_run"
    /\ lock = 0
    /\ \E bound \in BOOLEAN :
           main_pc' = IF bound THEN "listening" ELSE "exited_bind_error"
    /\ UNCHANGED <<is_replica, hs_step, hs_sent, hs_replies,
                   handshake_error_logged, handshake_runs>>
    /\ UNCHANGED <<store_vars, conn_vars>>
    /\ UNCHANGED context_vars

\* accept() returns a stream: a task is spawned for it, in a free slot.
Accept(c) ==
    /\ main_pc = "listening"
    /\ pc[c] \in {"unaccepted", "closed"}
    /\ mem_db_arc_pointer' = [mem_db_arc_pointer EXCEPT ![c] = SpawnedDbPointer(c)]
    /\ pc' = [pc EXCEPT ![c] = "reading"]
    /\ num_of_retries' = [num_of_retries EXCEPT ![c] = 0]
    /\ consecutive_timeouts' = [consecutive_timeouts EXCEPT ![c] = 0]
    /\ request_buffer' = [request_buffer EXCEPT ![c] = <<>>]
    /\ command_response' = [command_response EXCEPT ![c] = <<>>]
    /\ read_result' = [read_result EXCEPT ![c] = "none"]
    /\ exit' = [exit EXCEPT ![c] = "none"]
    /\ in_flight' = [in_flight EXCEPT ![c] = 0]
    /\ UNCHANGED <<main_vars, store_vars>>
    /\ UNCHANGED context_vars

AcceptError ==
    /\ main_pc = "listening"
    /\ main_pc' = AfterAcceptError(main_pc)
    /\ UNCHANGED <<is_replica, hs_step, hs_sent, hs_replies,
                   handshake_error_logged, handshake_runs>>
    /\ UNCHANGED <<store_vars, conn_vars>>
    /\ UNCHANGED context_vars

(***************************************************************************)
(* node::command_listener::handle_client_connection.                       *)
(***************************************************************************)
\* The kinds of the errors handle_command returns.
DecodeErrors == {"EmptyRequest", "MalformedRequest"}
CommandErrors == DecodeErrors \cup {"UnsupportedCommand", "ArityError"}

\* Whether handle_client_connection returned Ok(()) or Err, or panicked.
ExitResult(cause) ==
    CASE cause \in {"timeout", "eof"} -> "Ok"
      [] cause \in {"read_error", "write_error"} \cup CommandErrors -> "Err"
      [] cause = "panic" -> "Panic"
      [] OTHER -> "none"

\* The loop of connection c ends: the task's locals are dropped, the
\* listener sees the task's result.
Close(c, cause) ==
    /\ pc' = [pc EXCEPT ![c] = "closed"]
    /\ exit' = [exit EXCEPT ![c] = cause]
    /\ num_of_retries' = [num_of_retries EXCEPT ![c] = 0]
    /\ request_buffer' = [request_buffer EXCEPT ![c] = <<>>]
    /\ command_response' = [command_response EXCEPT ![c] = <<>>]
    /\ main_pc' = AfterConnectionResult(main_pc, ExitResult(cause))
    /\ UNCHANGED <<is_replica, hs_step, hs_sent, hs_replies,
                   handshake_error_logged, handshake_runs>>
    /\ UNCHANGED <<mem_db_arc_pointer>>

\* The loop ending one timeout early: at the third timeout.
TimeoutBreaksAtThird(retries) == retries + 1 = TCP_READ_TIMEOUT_MAX_RETRIES

\* command_listener.rs:68: the timeout that ends the loop.
TimeoutBreaks(retries) == retries = TCP_READ_TIMEOUT_MAX_RETRIES

\* command_listener.rs:65-74.
ReadTimeout(c) ==
    /\ pc[c] = "reading"
    /\ read_result' = [read_result EXCEPT ![c] = "timeout"]
    /\ consecutive_timeouts' =
           [consecutive_timeouts EXCEPT ![c] = consecutive_timeouts[c] + 1]
    /\ IF TimeoutBreaks(num_of_retries[c])
       THEN Close(c, "timeout")
       ELSE /\ num_of_retries' = [num_of_retries EXCEPT ![c] = num_of_retries[c] + 1]
            /\ UNCHANGED <<main_vars, mem_db_arc_pointer, pc, request_buffer,
                           command_response, exit>>
    /\ UNCHANGED <<store_vars, in_flight>>
    /\ UNCHANGED context_vars

\* command_listener.rs:76: `read_result?` on Err.
ReadIoError(c) ==
    /\ pc[c] = "reading"
    /\ read_result' = [read_result EXCEPT ![c] = "error"]
    /\ consecutive_timeouts' = [consecutive_timeouts EXCEPT ![c] = 0]
    /\ Close(c, "read_error")
    /\ UNCHANGED <<store_vars, in_flight>>
    /\ UNCHANGED context_vars


(***************************************************************************)
(* node::command_listener::handle_command.                                 *)
(***************************************************************************)
\* A name that matches no arm answered as PING.
HandlerOfUnknownAsPing(name) ==
    CASE name = PING -> "ping"
      [] name = REPLCONF -> "replconf"
      [] name = PSYNC -> "psync"
      [] name = ECHO -> "echo"
      [] name = GET -> "get"
      [] name = SET -> "set"
      [] name = INFO -> "info"
      [] OTHER -> "ping"

\* GET dispatched to the ECHO handler.
HandlerOfGetAsEcho(name) ==
    CASE name = PING -> "ping"
      [] name = REPLCONF -> "replconf"
      [] name = PSYNC -> "psync"
      [] name = ECHO -> "echo"
      [] name = GET -> "echo"
      [] name = SET -> "set"
      [] name = INFO -> "info"
      [] OTHER -> "unsupported"

\* command_listener.rs:113-132: the handler the name selects.
HandlerOf(name) ==
    CASE name = PING -> "ping"
      [] name = REPLCONF -> "replconf"
      [] name = PSYNC -> "psync"
      [] name = ECHO -> "echo"
      [] name = GET -> "get"
      [] name = SET -> "set"
      [] name = INFO -> "info"
      [] OTHER -> "unsupported"

HandlerName(handler) ==
    CASE handler = "ping" -> PING
      [] handler = "replconf" -> REPLCONF
      [] handler = "psync" -> PSYNC
      [] handler = "echo" -> ECHO
      [] handler = "get" -> GET
      [] handler = "set" -> SET
      [] handler = "info" -> INFO
      [] OTHER -> <<>>

\* The handlers that are awaited take the store's lock.
LockingHandlers == {"psync", "get", "set", "info"}

\* What the handler does to the entries, and its reply.
RunHandlerOn(handler, entries, parameters, replica, evict) ==
    CASE handler = "ping" ->
             [entries |-> entries, response |-> handle_command_ping(parameters)]
      [] handler = "echo" ->
             [entries |-> entries, response |-> handle_command_echo(parameters)]
      [] handler = "replconf" ->
             [entries |-> entries, response |-> handle_command_replconf(parameters)]
      [] handler = "set" -> handle_command_set_async(entries, parameters)
      [] handler = "get" -> handle_command_get_async(entries, parameters, evict)
      [] handler = "info" -> handle_command_info(entries, replica)
      [] handler = "psync" -> handle_command_psync(entries)

\* command_listener.rs:87: the slice handed to handle_command, the request
\* padded with one 0 byte.
PaddedRequest(bytes) == bytes \o <<NUL>>

\* handle_command's parse of every request of the model, with and without
\* overflow checks.
ParsedRequests ==
    [overflow_checks \in BOOLEAN |->
        [bytes \in Frames \cup {<<>>} |->
            parse_resp_proc_command(PaddedRequest(bytes), overflow_checks)]]

\* The outcomes of the parse that a build of the program can produce.
ParseOutcomes(bytes) ==
    {ParsedRequests[overflow_checks][bytes] : overflow_checks \in BOOLEAN}

\* The RespCommand of a request that parsed.
CommandOf(bytes) == ParsedRequests[TRUE][bytes]

\* The loop reading again without writing the response.
AfterCommandOkSkipsWrite == "reading"

\* command_listener.rs:85-91: where the loop stands once handle_command
\* returned a response.
AfterCommandOk == "responding"

\* handle_command up to its first await, on the bytes just read.
StartHandleCommand(c, bytes) ==
    \E parsed \in ParseOutcomes(bytes) :
        LET handler == HandlerOf(parsed.name)
        IN  IF parsed.kind = "Panic" THEN
                /\ Close(c, "panic")
                /\ UNCHANGED <<store_vars>>
            ELSE IF parsed.kind = "Err" THEN
                /\ Close(c, parsed.error)
                /\ UNCHANGED <<store_vars>>
            ELSE IF handler = "unsupported" THEN
                /\ Close(c, "UnsupportedCommand")
                /\ UNCHANGED <<store_vars>>
            ELSE IF ~ArityOk(HandlerName(handler), parsed.parameters) THEN
                /\ Close(c, "ArityError")
                /\ UNCHANGED <<store_vars>>
            ELSE IF handler \in LockingHandlers THEN
                /\ pc' = [pc EXCEPT ![c] = "locking"]
                /\ request_buffer' = [request_buffer EXCEPT ![c] = bytes]
                /\ UNCHANGED <<main_vars, store_vars, mem_db_arc_pointer,
                               num_of_retries, command_response, exit>>
            ELSE
                /\ pc' = [pc EXCEPT ![c] = AfterCommandOk]
                /\ request_buffer' = [request_buffer EXCEPT ![c] = bytes]
                /\ command_response' = [command_response EXCEPT ![c] =
                       RunHandlerOn(handler, EmptyEntries, parsed.parameters,
                                    is_replica, FALSE).response]
                /\ UNCHANGED <<main_vars, store_vars, mem_db_arc_pointer,
                               num_of_retries, exit>>

\* The loop without its check for a read of zero bytes.
IsSocketClosedNever(request_byte_count) == FALSE

\* command_listener.rs:80: a read of zero bytes means the socket is closed.
IsSocketClosed(request_byte_count) == request_byte_count = 0

\* command_listener.rs:87: `&request_buffer[..request_byte_count + 1]` is
\* within the buffer; the slice of a range that is not panics.
SliceEnd(byte_count) == byte_count + 1

SliceInBounds(byte_count) == SliceEnd(byte_count) <= REQUEST_BUFFER_LEN

\* command_listener.rs:75-87: the read returned `bytes`.
ReadReturns(c, bytes) ==
    /\ pc[c] = "reading"
    /\ consecutive_timeouts' = [consecutive_timeouts EXCEPT ![c] = 0]
    /\ IF IsSocketClosed(Len(bytes))
       THEN /\ Close(c, "eof")
            /\ UNCHANGED <<store_vars, in_flight>>
       ELSE /\ in_flight' = [in_flight EXCEPT ![c] = in_flight[c] + 1]
            /\ IF SliceInBounds(Len(bytes))
               THEN StartHandleCommand(c, bytes)
               ELSE /\ Close(c, "panic")
                    /\ UNCHANGED <<store_vars>>

ReadZeroBytes(c) ==
    /\ read_result' = [read_result EXCEPT ![c] = "zero"]
    /\ ReadReturns(c, <<>>)
    /\ UNCHANGED context_vars

ReadRequest(c) ==
    /\ read_result' = [read_result EXCEPT ![c] = "bytes"]
    /\ \E bytes \in Frames : ReadReturns(c, bytes)
    /\ UNCHANGED context_vars

\* An awaited handler gets the lock ...
LockStore(c) ==
    /\ pc[c] = "locking"
    /\ lock = 0
    /\ lock' = c
    /\ pc' = [pc EXCEPT ![c] = "locked"]
    /\ UNCHANGED <<main_vars, mem_db, last_set, mem_db_arc_pointer, num_of_retries,
                   consecutive_timeouts, request_buffer, command_response,
                   read_result, exit, in_flight>>
    /\ UNCHANGED context_vars

\* The guard kept by the task after its handler returned.
GuardKeptAfterHandler(c) == c

\* The holder of the lock once the handler of connection c returned: the
\* guard is a local of the handler, so nobody.
GuardAfterHandler(c) == 0

\* ... runs on the store its Arc points to, and drops the guard.
RunHandler(c) ==
    /\ pc[c] = "locked"
    /\ lock = c
    /\ LET command == CommandOf(request_buffer[c])
           db == mem_db_arc_pointer[c]
       IN  \E evict \in BOOLEAN :
               LET done == RunHandlerOn(HandlerOf(command.name), mem_db[db],
                                        command.parameters, is_replica, evict)
               IN  /\ mem_db' = [mem_db EXCEPT ![db] = done.entries]
                   /\ last_set' =
                          IF HandlerOf(command.name) = "set"
                          THEN handle_command_set_async(
                                   last_set, command.parameters).entries
                          ELSE last_set
                   /\ command_response' =
                          [command_response EXCEPT ![c] = done.response]
    /\ lock' = GuardAfterHandler(c)
    /\ pc' = [pc EXCEPT ![c] = AfterCommandOk]
    /\ UNCHANGED <<main_vars, mem_db_arc_pointer, num_of_retries,
                   consecutive_timeouts, request_buffer, read_result, exit,
                   in_flight>>
    /\ UNCHANGED context_vars

\* The response written once more before the next read.
AfterWriteRespondsAgain == "responding"

\* command_listener.rs:92-96: after the write the loop starts over with a
\* read.
AfterWrite == "reading"

\* command_listener.rs:90-91: write_all and flush succeed; the loop goes on.
WriteResponse(c) ==
    /\ pc[c] = "responding"
    /\ in_flight' = [in_flight EXCEPT ![c] = in_flight[c] - 1]
    /\ pc' = [pc EXCEPT ![c] = AfterWrite]
    /\ request_buffer' = [request_buffer EXCEPT ![c] = <<>>]
    /\ command_response' = [command_response EXCEPT ![c] = <<>>]
    /\ UNCHANGED <<main_vars, store_vars, mem_db_arc_pointer, num_of_retries,
                   consecutive_timeouts, read_result, exit>>
    /\ UNCHANGED context_vars

\* command_listener.rs:90-91: write_all or flush fails.
WriteIoError(c) ==
    /\ pc[c] = "responding"
    /\ Close(c, "write_error")
    /\ UNCHANGED <<store_vars, consecutive_timeouts, read_result, in_flight>>
    /\ UNCHANGED context_vars

\* Time passes the deadline of an entry that was set with an expiry.
DeadlinePasses(k) ==
    /\ mem_db[MainDb][k].expiry = "pending"
    /\ mem_db' = [mem_db EXCEPT ![MainDb][k].expiry = "passed"]
    /\ last_set' = IF last_set[k].expiry = "pending"
                   THEN [last_set EXCEPT ![k].expiry = "passed"]
                   ELSE last_set
    /\ UNCHANGED <<main_vars, lock, conn_vars>>
    /\ UNCHANGED context_vars

(***************************************************************************)
(* The specification.                                                      *)
(***************************************************************************)
Next ==
    \/ MainStartHandshake
    \/ MainSkipHandshake
    \/ HsConnect
    \/ HsSend
    \/ HsAwait
    \/ MainHandshakeReturn
    \/ ListenerBind
    \/ AcceptError
    \/ \E c \in Conns : Accept(c)
    \/ \E c \in Conns : ReadTimeout(c)
    \/ \E c \in Conns : ReadIoError(c)
    \/ \E c \in Conns : ReadZeroBytes(c)
    \/ \E c \in Conns : ReadRequest(c)
    \/ \E c \in Conns : LockStore(c)
    \/ \E c \in Conns : RunHandler(c)
    \/ \E c \in Conns : WriteResponse(c)
    \/ \E c \in Conns : WriteIoError(c)
    \/ \E k \in Keys : DeadlinePasses(k)

Spec == Init /\ [][Next]_vars

\* main is a task the runtime keeps running: a step of its own that is
\* possible is eventually taken.
MainNext ==
    \/ MainStartHandshake
    \/ MainSkipHandshake
    \/ HsConnect
    \/ HsSend
    \/ HsAwait
    \/ MainHandshakeReturn
    \/ ListenerBind

FairSpec == Spec /\ WF_vars(MainNext)

(***************************************************************************)
(* One cycle of the loop body taken alone, on many more requests than the  *)
(* connections above send: the bytes of a read are handed to               *)
(* handle_command (command_listener.rs:85-87), or a test builds the        *)
(* AppContext from its request directly (command_listener.rs:154-158);     *)
(* then the request is parsed and dispatched.                              *)
(***************************************************************************)
SupportedNames == {PING, REPLCONF, PSYNC, ECHO, GET, SET, INFO}

\* Parameters each command accepts.
CanonicalParameters(name) ==
    CASE name = ECHO -> <<ValueX>>
      [] name = SET -> <<KeyA, ValueX>>
      [] name = GET -> <<KeyA>>
      [] name = REPLCONF -> << <<"c", "a", "p", "a">>, <<"2">> >>
      [] name = PSYNC -> << <<"?">>, <<"-", "1">> >>
      [] OTHER -> <<>>

\* Every supported command, its name in every case.
CaseFramesOf ==
    [name \in SupportedNames |->
        {EncodeArray(<<written>> \o CanonicalParameters(name)) :
             written \in CaseVariants(name)}]

CaseFrames == UNION {CaseFramesOf[name] : name \in SupportedNames}

\* Names that decode and that no handler is selected for.
UnsupportedNames ==
    {<<"D", "E", "L">>, <<"d", "e", "l">>, PING \o <<"X">>, <<"P", "I", "N">>,
     <<"X">> \o GET, PING \o <<" ">>, <<"S", "E", "T", "E", "X">>}

UnsupportedFrames ==
    {EncodeArray(<<written, KeyA>>) : written \in UnsupportedNames}
        \cup {EncodeArray(<<written>>) : written \in UnsupportedNames}

\* Supported commands with a number of parameters their handler refuses.
ArityFrames ==
    {EncodeArray(<<GET>>), EncodeArray(<<ECHO>>),
     EncodeArray(<<ECHO, ValueX, ValueY>>), EncodeArray(<<SET, KeyA>>),
     EncodeArray(<<GET, KeyA, KeyB>>), EncodeArray(<<PSYNC, <<"?">> >>),
     EncodeArray(<<REPLCONF, <<"c", "a", "p", "a">> >>),
     EncodeArray(<<INFO, KeyA, KeyB>>)}

\* Requests that are no array, have no CR LF after the count, or fewer than
\* 2 bytes before it.
NoArrayInputs == {PING \o CRLF_BYTES, EncodeBulkString(PING), <<"x">>,
                  <<CR, LF>>, <<"+", "O", "K">> \o CRLF_BYTES}
NoTerminatorInputs == {<<ARRAYS_BYTE>>, <<ARRAYS_BYTE, "1">>,
                       <<ARRAYS_BYTE, "1", CR>>, <<ARRAYS_BYTE, "1", LF>>}
ShortCountInputs == {<<ARRAYS_BYTE>> \o CRLF_BYTES,
                     <<ARRAYS_BYTE>> \o CRLF_BYTES \o EncodeBulkString(PING)}

\* Requests that fail later in the parser: a count that is no u8, a name
\* that is no bulk string or is empty, a parameter that is missing.
LateMalformedInputs ==
    {<<ARRAYS_BYTE, "x">> \o CRLF_BYTES \o EncodeBulkString(PING),
     <<ARRAYS_BYTE, "2", "5", "6">> \o CRLF_BYTES \o EncodeBulkString(PING),
     <<ARRAYS_BYTE, "-", "1">> \o CRLF_BYTES \o EncodeBulkString(PING),
     <<ARRAYS_BYTE, "1">> \o CRLF_BYTES \o PING \o CRLF_BYTES,
     <<ARRAYS_BYTE, "1">> \o CRLF_BYTES \o EncodeBulkString(<<>>),
     <<ARRAYS_BYTE, "2">> \o CRLF_BYTES \o EncodeBulkString(ECHO),
     <<ARRAYS_BYTE, "1">> \o CRLF_BYTES,
     <<ARRAYS_BYTE, "3">> \o CRLF_BYTES \o EncodeBulkStrings(<<SET, KeyA>>)}

\* Requests that declare 0 elements, with and without a bulk string after.
CountZeroInputs ==
    {FrameCountZero,
     <<ARRAYS_BYTE, "0">> \o CRLF_BYTES \o EncodeBulkStrings(<<ECHO, ValueX>>),
     <<ARRAYS_BYTE, "0", "0">> \o CRLF_BYTES \o EncodeBulkStrings(<<GET, KeyA>>),
     <<ARRAYS_BYTE, "+", "0">> \o CRLF_BYTES \o EncodeBulkStrings(<<PING>>),
     <<ARRAYS_BYTE, "0">> \o CRLF_BYTES}

\* Well-formed frames followed by more bytes in the same buffer.
FrameParts ==
    {<<PING>>, <<ECHO, ValueX>>, <<SET, KeyA, ValueX>>, <<GET, KeyA>>,
     <<SET, KeyA, ValueY, PX, <<"1">> >>, <<PING, ValueX, ValueY>>,
     <<ECHO, <<>> >>, <<ECHO, <<CR, LF>> >>, <<SET, KeyB, <<"$", "1">> >>}

TrailingBytes ==
    {<<>>, <<"x">>, CRLF_BYTES, <<NUL>>, EncodeBulkString(ValueY),
     FramePing, EncodeArray(<<SET, KeyB, ValueY>>), <<"x">> \o CRLF_BYTES}

TrailingFramesOf ==
    [parts \in FrameParts |->
        {EncodeArray(parts) \o trailing : trailing \in TrailingBytes}]

TrailingFrames == UNION {TrailingFramesOf[parts] : parts \in FrameParts}

\* A read that fills the buffer but for its last byte, or all of it.
FilledRead(byte_count) ==
    FramePing \o [i \in 1..(byte_count - Len(FramePing)) |-> "x"]

FilledReads == {FilledRead(REQUEST_BUFFER_LEN - 1), FilledRead(REQUEST_BUFFER_LEN)}

DecodeInputs ==
    CaseFrames \cup UnsupportedFrames \cup ArityFrames \cup NoArrayInputs
        \cup NoTerminatorInputs \cup ShortCountInputs \cup LateMalformedInputs
        \cup CountZeroInputs \cup TrailingFrames

\* What a read of at least one byte returns, and the buffers of the tests.
ReadInputs == DecodeInputs \cup FilledReads
TestInputs == DecodeInputs \cup {<<>>}

\* The stores a call runs against.
TestStores ==
    {EmptyEntries,
     [EmptyEntries EXCEPT ![KeyA] = Entry(ValueY, "none")],
     [EmptyEntries EXCEPT ![KeyA] = Entry(ValueY, "pending")],
     [EmptyEntries EXCEPT ![KeyA] = Entry(ValueY, "passed")]}

\* The state before the cycle: a read has returned tcp_bytes, or a test has
\* built the AppContext of its request.
HandleCommandInit ==
    /\ ProgramInit
    /\ checked_build \in BOOLEAN
    /\ context_db \in TestStores
    /\ \/ /\ context_pc = "read"
          /\ tcp_bytes \in ReadInputs
          /\ context_byte_count = Len(tcp_bytes)
          /\ context_request = <<>>
       \/ /\ context_pc = "new"
          /\ tcp_bytes = <<>>
          /\ context_request \in TestInputs
          /\ context_byte_count = Len(context_request)
    /\ context_resp_command = NoCommand
    /\ body_parameter_count = -1
    /\ context_response = <<>>
    /\ handle_command_result = "none"

\* command_listener.rs:85-87: the bytes read, padded, are handed to
\* handle_command; slicing beyond the buffer panics.
HandOff ==
    /\ context_pc = "read"
    /\ IF SliceInBounds(context_byte_count)
       THEN /\ context_pc' = "new"
            /\ context_request' = PaddedRequest(tcp_bytes)
            /\ UNCHANGED handle_command_result
       ELSE /\ context_pc' = "returned"
            /\ handle_command_result' = "Panic"
            /\ UNCHANGED context_request
    /\ UNCHANGED <<checked_build, context_byte_count, tcp_bytes,
                   context_resp_command, body_parameter_count,
                   context_response, context_db>>
    /\ UNCHANGED <<main_vars, store_vars, conn_vars>>

\* command_listener.rs:109: parse_resp_proc_command(&mut context).
ContextParse ==
    /\ context_pc = "new"
    /\ LET parsed == parse_resp_proc_command(context_request, checked_build)
       IN  /\ body_parameter_count' = parsed.count
           /\ IF parsed.kind = "Ok"
              THEN /\ context_pc' = "parsed"
                   /\ context_resp_command' = parsed
                   /\ UNCHANGED handle_command_result
              ELSE /\ context_pc' = "returned"
                   /\ handle_command_result' =
                          IF parsed.kind = "Panic" THEN "Panic" ELSE parsed.error
                   /\ UNCHANGED context_resp_command
    /\ UNCHANGED <<checked_build, context_byte_count, tcp_bytes, context_request,
                   context_response, context_db>>
    /\ UNCHANGED <<main_vars, store_vars, conn_vars>>

\* command_listener.rs:113-134: the dispatch on the command's name.
ContextDispatch ==
    /\ context_pc = "parsed"
    /\ LET handler == HandlerOf(context_resp_command.name)
       IN  IF handler = "unsupported" THEN
               /\ handle_command_result' = "UnsupportedCommand"
               /\ UNCHANGED <<context_response, context_db>>
           ELSE IF ~ArityOk(HandlerName(handler),
                            context_resp_command.parameters) THEN
               /\ handle_command_result' = "ArityError"
               /\ UNCHANGED <<context_response, context_db>>
           ELSE \E evict \in BOOLEAN :
               LET done == RunHandlerOn(handler, context_db,
                                        context_resp_command.parameters,
                                        is_replica, evict)
               IN  /\ handle_command_result' = "Ok"
                   /\ context_response' = done.response
                   /\ context_db' = done.entries
    /\ context_pc' = "returned"
    /\ UNCHANGED <<checked_build, context_byte_count, tcp_bytes, context_request,
                   context_resp_command, body_parameter_count>>
    /\ UNCHANGED <<main_vars, store_vars, conn_vars>>

HandleCommandNext ==
    \/ HandOff
    \/ ContextParse
    \/ ContextDispatch

HandleCommandSpec == HandleCommandInit /\ [][HandleCommandNext]_vars



(***************************************************************************)
(* What the claims speak of.                                               *)
(***************************************************************************)
\* All a connection task owns.
ConnState(c) ==
    <<mem_db_arc_pointer[c], pc[c], num_of_retries[c], consecutive_timeouts[c],
      request_buffer[c], command_response[c], read_result[c], exit[c],
      in_flight[c]>>

OpenPcs == {"reading", "locking", "locked", "responding"}

\* A step in which the read of connection c timed out.
TimedOutStep(c) == consecutive_timeouts'[c] = consecutive_timeouts[c] + 1

\* A step of connection c that leaves every other connection and the
\* listener as they were.
OnlyTouches(c) ==
    /\ \A d \in Conns \ {c} : ConnState(d)' = ConnState(d)
    /\ main_vars' = main_vars

\* A step that puts a new connection into the slot of a closed one.
FreshlyAccepted(c) ==
    /\ pc'[c] = "reading"
    /\ num_of_retries'[c] = 0
    /\ consecutive_timeouts'[c] = 0
    /\ read_result'[c] = "none"
    /\ exit'[c] = "none"
    /\ in_flight'[c] = 0

TypeOK ==
    /\ is_replica \in BOOLEAN
    /\ main_pc \in {"main", "handshake", "listener_run", "listening",
                    "exited_bind_error"}
    /\ lock \in {0} \cup Conns
    /\ \A c \in Conns :
           /\ pc[c] \in {"unaccepted", "closed"} \cup OpenPcs
           /\ num_of_retries[c] \in 0..TCP_READ_TIMEOUT_MAX_RETRIES
           /\ exit[c] \in {"none", "timeout", "eof", "read_error",
                           "write_error", "panic"} \cup CommandErrors

(***************************************************************************)
(* C1 (as stated): the third consecutive timeout of a connection's reads   *)
(* moves the connection to Closed.                                         *)
(***************************************************************************)
C1_ThirdConsecutiveTimeoutCloses ==
    \A c \in Conns : consecutive_timeouts[c] >= 3 => pc[c] = "closed"

(***************************************************************************)
(* C1 (amended): a timeout is retried while num_of_retries is below        *)
(* TCP_READ_TIMEOUT_MAX_RETRIES = 3 and counted; the timeout that finds    *)
(* num_of_retries at 3 (the fourth consecutive timeout at the latest)      *)
(* moves the connection to Closed, with the loop returning Ok; a closed    *)
(* connection issues no further read; and the step touches no other       *)
(* connection and not the listener.                                        *)
(***************************************************************************)
C1_TimeoutStep(c) ==
    TimedOutStep(c) =>
        /\ pc[c] = "reading"
        /\ OnlyTouches(c)
        /\ IF num_of_retries[c] = TCP_READ_TIMEOUT_MAX_RETRIES
           THEN /\ pc'[c] = "closed"
                /\ exit'[c] = "timeout"
                /\ ExitResult(exit'[c]) = "Ok"
           ELSE /\ pc'[c] = "reading"
                /\ num_of_retries'[c] = num_of_retries[c] + 1

C1_ClosedStaysClosed(c) ==
    pc[c] = "closed" => (ConnState(c)' = ConnState(c) \/ FreshlyAccepted(c))

C1_FourthTimeoutCloses ==
    /\ [](\A c \in Conns :
             /\ consecutive_timeouts[c] <= TCP_READ_TIMEOUT_MAX_RETRIES + 1
             /\ consecutive_timeouts[c] = TCP_READ_TIMEOUT_MAX_RETRIES + 1
                    => pc[c] = "closed" /\ exit[c] = "timeout"
             /\ exit[c] = "timeout" => pc[c] = "closed")
    /\ [][\A c \in Conns : C1_TimeoutStep(c) /\ C1_ClosedStaysClosed(c)]_vars

\* Four consecutive timeouts closed one connection while the other one is
\* open.
C1_Witness ==
    \E c \in Conns, d \in Conns :
        /\ pc[c] = "closed" /\ exit[c] = "timeout"
        /\ consecutive_timeouts[c] = TCP_READ_TIMEOUT_MAX_RETRIES + 1
        /\ pc[d] \in OpenPcs

(***************************************************************************)
(* C2: timeouts are counted consecutively: a read that returns bytes       *)
(* restores the full tolerance, so a connection is closed for timeouts     *)
(* only when 3 timeouts occurred with no successful read between them.     *)
(***************************************************************************)
C2_TimeoutsCountedConsecutively ==
    \A c \in Conns :
        (pc[c] = "closed" /\ exit[c] = "timeout")
            => consecutive_timeouts[c] >= 3


(***************************************************************************)
(* C3: within one connection requests and responses strictly alternate:    *)
(* a read is issued only when every request read before has had its       *)
(* response written and flushed, and at most one request is in flight.     *)
(***************************************************************************)
C3_RequestsAndResponsesAlternate ==
    \A c \in Conns :
        /\ in_flight[c] \in {0, 1}
        /\ pc[c] = "reading" => in_flight[c] = 0
        /\ pc[c] \in {"locking", "locked", "responding"} => in_flight[c] = 1
        /\ pc[c] = "responding" => command_response[c] # <<>>

\* A connection issues its next read after a request was answered.
C3_Witness ==
    \E c \in Conns :
        pc[c] = "reading" /\ read_result[c] = "bytes" /\ in_flight[c] = 0

(***************************************************************************)
(* C4: SETs from different connections never lose an update: the store    *)
(* holds, for every key, what the most recent completed SET of that key    *)
(* wrote (or nothing once its deadline passed and a GET evicted it), and   *)
(* the handlers run one at a time, under the lock.                         *)
(***************************************************************************)
C4_NoLostUpdate ==
    /\ \A k \in Keys :
           \/ mem_db[MainDb][k] = last_set[k]
           \/ last_set[k].expiry = "passed" /\ mem_db[MainDb][k] = NoEntry
    /\ \A c \in Conns : (lock = c) <=> (pc[c] = "locked")

\* Two connections have each completed a SET, on distinct keys, and both
\* entries are in the store.
C4_Witness ==
    /\ pc[1] = "responding" /\ request_buffer[1] = FrameSetAX
    /\ pc[2] = "responding" /\ request_buffer[2] = FrameSetBX
    /\ mem_db[MainDb][KeyA] = Entry(ValueX, "none")
    /\ mem_db[MainDb][KeyB] = Entry(ValueX, "none")

(***************************************************************************)
(* C5.  The reply that becomes available in a step: connection c moves to  *)
(* "responding" with the response to the request in its buffer.            *)
(***************************************************************************)
Replies(c, name) ==
    /\ pc[c] # "responding"
    /\ pc'[c] = "responding"
    /\ CommandOf(request_buffer'[c]).name = name

KeyOf(c) == CommandOf(request_buffer'[c]).parameters[1]

(***************************************************************************)
(* C5 (as stated): a GET of key k replies with the bulk string of the      *)
(* value of the most recent SET on k, a GET of a key never set replies     *)
(* with the null bulk string, and a SET replies +OK.                       *)
(***************************************************************************)
C5_GetRepliesLastSet ==
    [][\A c \in Conns :
          /\ Replies(c, SET) =>
                 command_response'[c] = EncodeSimpleString(<<"O", "K">>)
          /\ Replies(c, GET) =>
                 command_response'[c] =
                     IF last_set[KeyOf(c)] = NoEntry THEN NullBulkString
                     ELSE EncodeBulkString(last_set[KeyOf(c)].value)]_vars

(***************************************************************************)
(* C5 (amended): as stated, except that a GET of a key whose most recent   *)
(* SET carried an expiry whose deadline has passed replies with the null   *)
(* bulk string.                                                            *)
(***************************************************************************)
C5_GetRepliesLastUnexpiredSet ==
    [][\A c \in Conns :
          /\ Replies(c, SET) =>
                 command_response'[c] = EncodeSimpleString(<<"O", "K">>)
          /\ Replies(c, GET) =>
                 command_response'[c] =
                     IF last_set[KeyOf(c)].expiry \in {"absent", "passed"}
                     THEN NullBulkString
                     ELSE EncodeBulkString(last_set[KeyOf(c)].value)]_vars

\* A GET is answered with the value of the second of two SETs of its key.
C5_Witness ==
    \E c \in Conns :
        /\ pc[c] = "responding"
        /\ request_buffer[c] = FrameGetA
        /\ command_response[c] = EncodeBulkString(ValueY)
        /\ last_set[KeyA].value = ValueY

(***************************************************************************)
(* C6: a malformed request, an unsupported command or an arity error       *)
(* closes the connection it came on and nothing else: such a request is    *)
(* never dispatched or answered, the step that ends the loop leaves every  *)
(* other connection, the store and the listener as they were, and the      *)
(* listener stays listening and able to accept, also after a failed        *)
(* accept.                                                                 *)
(***************************************************************************)
C6_Closes(c) ==
    (pc[c] # "closed" /\ pc'[c] = "closed") =>
        /\ OnlyTouches(c)
        /\ store_vars' = store_vars
        /\ exit'[c] # "none"

C6_BadRequestClosesOnlyItsConnection ==
    /\ [](\A c \in Conns :
             /\ pc[c] \in {"locking", "locked", "responding"}
                    => request_buffer[c] \in Frames \ BadFrames
             /\ (main_pc = "listening" /\ pc[c] \in {"unaccepted", "closed"})
                    => ENABLED Accept(c)
             /\ pc[c] # "unaccepted" => main_pc = "listening")
    /\ [][(\A c \in Conns : C6_Closes(c))
          /\ (main_pc = "listening" => main_pc' = "listening")]_vars

\* A bad request closed one connection while the other is being served and
\* the listener listens.
C6_Witness ==
    \E c \in Conns, d \in Conns :
        /\ pc[c] = "closed" /\ exit[c] \in CommandErrors
        /\ pc[d] = "responding" /\ read_result[d] = "bytes"
        /\ main_pc = "listening"


(***************************************************************************)
(* C7: a failed handshake is never fatal: whenever the handshake has       *)
(* failed, at whatever step, main reports the error and goes on to run     *)
(* the listener, which reaches the listening state unless its bind fails.  *)
(***************************************************************************)
C7_HandshakeFailureIsNotFatal ==
    /\ [](/\ hs_step = "Failed" => main_pc = "handshake"
          /\ handshake_error_logged
                 => main_pc \in {"listener_run", "listening", "exited_bind_error"})
    /\ [][hs_step = "Failed" /\ hs_step' # "Failed"
              => handshake_error_logged' /\ main_pc' = "listener_run"]_vars
    /\ (hs_step = "Failed") ~> (handshake_error_logged /\ main_pc = "listener_run")
    /\ (hs_step = "Failed") ~>
           (handshake_error_logged
                /\ main_pc \in {"listening", "exited_bind_error"})

\* The master garbled its reply to PSYNC, the failure was reported, and the
\* process listens and serves a connection.
C7_Witness ==
    /\ handshake_error_logged
    /\ main_pc = "listening"
    /\ \E c \in Conns : pc[c] = "responding"

(***************************************************************************)
(* C8: the handshake is a linear state machine: it sends PING, REPLCONF    *)
(* listening-port, REPLCONF capa psync2, PSYNC ? -1 in this order, each    *)
(* only after the expected reply to the one before; any other reply or an  *)
(* error of the connection aborts it with nothing further sent; Done is    *)
(* reached only after the full-resync reply to PSYNC.                      *)
(***************************************************************************)
HsRank(step) ==
    CASE step = "None" -> 0
      [] step = "Connect" -> 1
      [] step \in {HsSendSteps[i] : i \in 1..4} -> 2 * HsIndex(HsSendSteps, step)
      [] step \in {HsAwaitSteps[i] : i \in 1..4} ->
             2 * HsIndex(HsAwaitSteps, step) + 1
      [] step \in {"Done", "Failed"} -> 10

C8_HandshakeIsLinear ==
    /\ [](/\ Len(hs_sent) <= 4
          /\ \A i \in 1..Len(hs_sent) : hs_sent[i] = HandshakeCommands[i]
          /\ Len(hs_replies) \in {Len(hs_sent) - 1, Len(hs_sent)}
          /\ Len(hs_replies) <= Len(hs_sent)
          /\ \A i \in 1..Len(hs_replies) :
                 i < Len(hs_sent) => hs_replies[i] = HsExpectedReplies[i]
          /\ \A i \in 1..4 :
                 /\ hs_step = HsSendSteps[i]
                        => Len(hs_sent) = i - 1 /\ Len(hs_replies) = i - 1
                 /\ hs_step = HsAwaitSteps[i]
                        => Len(hs_sent) = i /\ Len(hs_replies) = i - 1
          /\ hs_step = "Done"
                 => hs_sent = HandshakeCommands /\ hs_replies = HsExpectedReplies
          /\ (hs_replies # <<>>
                  /\ hs_replies[Len(hs_replies)] # HsExpectedReplies[Len(hs_replies)])
                 => hs_step = "Failed")
    /\ [][/\ hs_step = "Failed" => hs_sent' \in {hs_sent, <<>>}
          /\ hs_step' # "None" => HsRank(hs_step') >= HsRank(hs_step)
          /\ hs_sent' # <<>> => Len(hs_sent') \in {Len(hs_sent), Len(hs_sent) + 1}]_vars

\* The handshake is Done.
C8_Witness ==
    /\ hs_step = "Done"
    /\ hs_sent = HandshakeCommands
    /\ hs_replies[4] = "+FULLRESYNC"

(***************************************************************************)
(* C9: the handshake runs at most once and only in replica mode, and it    *)
(* is over before the listener binds and accepts a connection; in master   *)
(* mode no step of it is ever taken and main goes straight to the          *)
(* listener.                                                               *)
(***************************************************************************)
C9_HandshakeOnceBeforeListening ==
    /\ [](/\ handshake_runs <= 1
          /\ ~is_replica
                 => /\ handshake_runs = 0
                    /\ hs_step = "None" /\ hs_sent = <<>> /\ hs_replies = <<>>
                    /\ main_pc # "handshake"
          /\ main_pc \in {"listener_run", "listening", "exited_bind_error"}
                 => /\ hs_step = "None"
                    /\ handshake_runs = IF is_replica THEN 1 ELSE 0
          /\ hs_step # "None" => main_pc = "handshake"
          /\ (\E c \in Conns : pc[c] # "unaccepted") => main_pc = "listening")
    /\ [][/\ (main_pc = "main" /\ main_pc' # "main")
                 => main_pc' = IF is_replica THEN "handshake" ELSE "listener_run"
          /\ main_pc' = "main" => main_pc = "main"
          /\ (main_pc' = "handshake" /\ main_pc # "handshake")
                 => main_pc = "main"]_vars

\* A replica serves its first connection, after its one handshake.
C9_Witness ==
    /\ is_replica
    /\ handshake_runs = 1
    /\ hs_step = "None"
    /\ \E c \in Conns : pc[c] = "reading" /\ read_result[c] = "none"

(***************************************************************************)
(* C10: a read that returns zero bytes ends the connection's loop without  *)
(* error: the connection becomes Closed with the loop returning Ok,        *)
(* nothing is decoded or dispatched, no response is written and the store  *)
(* is unchanged.                                                          *)
(***************************************************************************)
ZeroBytesStep(c) == pc[c] = "reading" /\ read_result'[c] = "zero"

C10_ZeroBytesEndsLoopWithoutError ==
    [][\A c \in Conns :
          ZeroBytesStep(c) =>
              /\ pc'[c] = "closed"
              /\ exit'[c] = "eof"
              /\ ExitResult(exit'[c]) = "Ok"
              /\ request_buffer'[c] = <<>>
              /\ command_response'[c] = <<>>
              /\ in_flight'[c] = in_flight[c]
              /\ store_vars' = store_vars
              /\ OnlyTouches(c)]_vars

\* A connection that had stored a value was closed by a read of zero
\* bytes; the value is still there.
C10_Witness ==
    \E c \in Conns :
        /\ pc[c] = "closed" /\ exit[c] = "eof" /\ read_result[c] = "zero"
        /\ in_flight[c] = 0
        /\ mem_db[MainDb][KeyA] = Entry(ValueX, "none")

(***************************************************************************)
(* What the claims about one cycle speak of.                               *)
(***************************************************************************)
\* The dispatch step of the cycle.
DispatchStep == context_pc = "parsed" /\ context_pc' = "returned"

\* The handler each name of the fixed set stands for.
HandlerByName ==
    {<<PING, "ping">>, <<ECHO, "echo">>, <<SET, "set">>, <<GET, "get">>,
     <<INFO, "info">>, <<REPLCONF, "replconf">>, <<PSYNC, "psync">>}

\* The step ran `handler` on the context's command and store.
RanHandler(handler) ==
    \E evict \in BOOLEAN :
        LET done == RunHandlerOn(handler, context_db,
                                 context_resp_command.parameters,
                                 is_replica, evict)
        IN  /\ context_response' = done.response
            /\ context_db' = done.entries

(***************************************************************************)
(* C11: dispatch selects a handler only for the exact upper-cased names    *)
(* PING, ECHO, SET, GET, INFO, REPLCONF and PSYNC, and then the handler    *)
(* of that name; every other decoded name fails with UnsupportedCommand,   *)
(* with no response payload and the store unchanged.                       *)
(***************************************************************************)
C11_DispatchSelectsByExactName ==
    [][DispatchStep =>
          IF \E h \in HandlerByName : h[1] = context_resp_command.name
          THEN /\ handle_command_result' \in {"Ok", "ArityError"}
               /\ handle_command_result' = "Ok" =>
                      \E h \in HandlerByName :
                          /\ h[1] = context_resp_command.name
                          /\ RanHandler(h[2])
          ELSE /\ handle_command_result' = "UnsupportedCommand"
               /\ context_response' = <<>>
               /\ context_db' = context_db]_vars

\* A request for SETEX was refused on a store that holds an entry.
C11_Witness ==
    /\ context_pc = "returned"
    /\ context_resp_command.name = <<"S", "E", "T", "E", "X">>
    /\ handle_command_result = "UnsupportedCommand"
    /\ context_response = <<>>
    /\ context_db[KeyA] = Entry(ValueY, "none")

(***************************************************************************)
(* C12: a request whose command name decoded and that is unsupported is    *)
(* answered with an error reply and not with a silent close: a connection  *)
(* is closed with a request read and not answered only when the failure    *)
(* came before a command name was decoded.  (The claim says the same of a  *)
(* wrong arity, which the handlers decide.)                                *)
(***************************************************************************)
C12_UnsupportedRequestGetsErrorReply ==
    \A c \in Conns :
        (pc[c] = "closed" /\ in_flight[c] = 1)
            => exit[c] # "UnsupportedCommand"

(***************************************************************************)
(* C13: command names match case-insensitively: a request that names a     *)
(* supported command in any mix of upper and lower case decodes to the     *)
(* upper-cased name with the same parameters, and is dispatched to the     *)
(* handler of that name with its reply: PING in any case replies           *)
(* "+PONG\r\n", ECHO in any case replies its parameter as a bulk string.   *)
(***************************************************************************)
\* The context's request names the command `name`, in some case.
WrittenAs(name) ==
    \/ context_request \in CaseFramesOf[name]
    \/ tcp_bytes \in CaseFramesOf[name]

PongReply == <<"+", "P", "O", "N", "G", CR, LF>>

C13_NamesMatchCaseInsensitively ==
    /\ [](\A h \in HandlerByName :
              (context_pc \in {"parsed", "returned"} /\ WrittenAs(h[1])) =>
                  /\ context_resp_command.kind = "Ok"
                  /\ context_resp_command.name = h[1]
                  /\ context_resp_command.parameters = CanonicalParameters(h[1])
                  /\ context_pc = "returned" =>
                         /\ handle_command_result = "Ok"
                         /\ h[1] = PING => context_response = PongReply
                         /\ h[1] = ECHO =>
                                context_response = <<"$", "1", CR, LF, "x", CR, LF>>)
    /\ [][\A h \in HandlerByName :
              (DispatchStep /\ WrittenAs(h[1])) => RanHandler(h[2])]_vars

\* "*1\r\n$4\r\npiNg\r\n" was read, decoded to PING without parameters and
\* answered "+PONG\r\n".
C13_Witness ==
    /\ context_pc = "returned"
    /\ tcp_bytes = <<"*", "1", CR, LF, "$", "4", CR, LF, "p", "i", "N", "g", CR, LF>>
    /\ context_resp_command.name = PING
    /\ context_resp_command.parameters = <<>>
    /\ context_response = PongReply

(***************************************************************************)
(* The parse step of the cycle, and the failures the parser checks for     *)
(* before it reads the command name (commands.rs:22-50).                   *)
(***************************************************************************)
ParseStep == context_pc = "new" /\ context_pc' # "new"

NotAnArray == context_request # <<>> /\ context_request[1] # ARRAYS_BYTE

NoTerminator ==
    \A i \in 1..(Len(context_request) - 1) :
        ~(context_request[i] = CR /\ context_request[i + 1] = LF)

ShortCount ==
    \E i \in 1..2 :
        /\ i + 1 <= Len(context_request)
        /\ context_request[i] = CR /\ context_request[i + 1] = LF

\* The failures of commands.rs:22-50 are error values of the kinds the
\* messages tell apart: an empty request is an EmptyRequest and nothing
\* else is, a request that is no array, has no CR LF or has fewer than 2
\* bytes before it is a MalformedRequest, and no error leaves a command or
\* a response behind.
DecodeErrorsAreClassified ==
    /\ [](/\ handle_command_result = "EmptyRequest" <=>
                 (context_pc = "returned" /\ context_request = <<>>
                      /\ tcp_bytes = <<>>)
          /\ handle_command_result \in DecodeErrors =>
                 /\ context_resp_command = NoCommand
                 /\ context_response = <<>>)
    /\ [][(ParseStep /\ context_request # <<>>
               /\ (NotAnArray \/ NoTerminator \/ ShortCount))
              => handle_command_result' = "MalformedRequest"]_vars

(***************************************************************************)
(* C14: every decode failure is returned as an error value of a            *)
(* distinguishable kind, EmptyRequest or MalformedRequest, and sets no     *)
(* decoded command.                                                        *)
(***************************************************************************)
C14_DecodeFailuresAreErrorValues ==
    [][(ParseStep /\ context_pc' = "returned")
          => /\ handle_command_result' \in DecodeErrors
             /\ context_resp_command' = NoCommand]_vars

(***************************************************************************)
(* C15: a slow or stalled client blocks nobody: a connection that awaits   *)
(* bytes or counts timeouts does not hold the store's lock, its timeouts   *)
(* touch neither the store nor another connection, and while it waits      *)
(* every other connection whose request has arrived can take each of its   *)
(* next steps with no step of the waiting one: get the lock, run its       *)
(* handler, and write its response, which ends the request.                *)
(***************************************************************************)
C15_StalledClientBlocksNobody ==
    /\ [](\A c \in Conns :
             /\ pc[c] # "locked" => lock # c
             /\ pc[c] = "reading" =>
                    \A d \in Conns \ {c} :
                        /\ pc[d] = "locking" => ENABLED LockStore(d)
                        /\ pc[d] = "locked" => ENABLED RunHandler(d)
                        /\ pc[d] = "responding" => ENABLED WriteResponse(d))
    /\ [][\A c \in Conns :
             /\ (TimedOutStep(c) /\ pc'[c] = "reading")
                    => store_vars' = store_vars /\ OnlyTouches(c)
             /\ (pc[c] = "locking" /\ pc'[c] # "locking") => pc'[c] = "locked"
             /\ (pc[c] = "locked" /\ pc'[c] # "locked")
                    => pc'[c] = "responding" /\ command_response'[c] # <<>>
                           /\ lock' = 0
             /\ (pc[c] = "responding" /\ pc'[c] = "reading")
                    => in_flight'[c] = 0]_vars

\* One client has let three reads time out and still holds its connection
\* while the other one's SET has run and is being answered.
C15_Witness ==
    \E c \in Conns, d \in Conns :
        /\ c # d
        /\ pc[c] = "reading" /\ consecutive_timeouts[c] = 3
        /\ pc[d] = "responding" /\ request_buffer[d] = FrameSetAX
        /\ mem_db[MainDb][KeyA] = Entry(ValueX, "none")
        /\ lock = 0

(***************************************************************************)
(* C16: a frame that decodes and declares c elements gives a command with  *)
(* exactly c - 1 parameters, the 2nd to c-th bulk strings of the frame in  *)
(* their order, whatever bytes follow the c-th element.                    *)
(***************************************************************************)
\* The count the request declares, read off its first line.
DeclaredCount(request) ==
    LET eol == CHOOSE i \in 1..Len(request) :
                   /\ request[i] = CR
                   /\ \A j \in 1..(i - 1) : request[j] # CR
    IN  DigitsValue(SubSeq(request, 2, eol - 1))

C16_ParametersAreTheOtherElements ==
    /\ (context_pc \in {"parsed", "returned"} /\ context_resp_command.kind = "Ok")
           => /\ Len(context_resp_command.parameters)
                     = DeclaredCount(context_request) - 1
              /\ body_parameter_count = DeclaredCount(context_request) - 1
    /\ \A parts \in FrameParts :
           (/\ context_pc \in {"parsed", "returned"}
            /\ \/ context_request \in TrailingFramesOf[parts]
               \/ tcp_bytes \in TrailingFramesOf[parts])
               => /\ context_resp_command.kind = "Ok"
                  /\ context_resp_command.name = Head(parts)
                  /\ context_resp_command.parameters = Tail(parts)
                  /\ Len(context_resp_command.parameters) = Len(parts) - 1

\* SET a x followed in the same read by SET b y decoded to SET with the
\* parameters a and x.
C16_Witness ==
    /\ context_pc = "parsed"
    /\ tcp_bytes = EncodeArray(<<SET, KeyA, ValueX>>)
                       \o EncodeArray(<<SET, KeyB, ValueY>>)
    /\ context_resp_command.name = SET
    /\ context_resp_command.parameters = <<KeyA, ValueX>>

(***************************************************************************)
(* C17: a frame that declares 0 elements is rejected with MalformedRequest *)
(* as an error value, no command is produced, and the parameter count      *)
(* count - 1 is never computed as a wrapped value.                         *)
(***************************************************************************)
C17_CountZeroIsRejected ==
    (/\ context_pc = "returned"
     /\ context_request \in CountZeroInputs \/ tcp_bytes \in CountZeroInputs)
        => /\ handle_command_result = "MalformedRequest"
           /\ context_resp_command = NoCommand
           /\ body_parameter_count < 255

(***************************************************************************)
(* C18: for every read of N bytes, 1 <= N <= 1024, the range handed to the *)
(* parser, the N bytes and one padding byte, lies inside the buffer of     *)
(* 1024 bytes, so that the hand-off never panics.                          *)
(***************************************************************************)
C18_HandOffStaysInsideBuffer ==
    (/\ context_pc # "read"
     /\ tcp_bytes # <<>>
     /\ context_byte_count \in 1..REQUEST_BUFFER_LEN)
        => /\ Len(context_request) = context_byte_count + 1
           /\ Len(context_request) <= REQUEST_BUFFER_LEN
           /\ context_request = PaddedRequest(tcp_bytes)

(***************************************************************************)
(* C19: only SET changes the entries of the store: the dispatch of PING,   *)
(* ECHO, INFO, PSYNC, REPLCONF or of a GET of a present, unexpired key     *)
(* leaves the entries and the role as they were (a GET may at most evict   *)
(* the expired entry it asked for), a dispatch that fails changes nothing, *)
(* and a handler that returns without error has set the response that      *)
(* handle_command returns.                                                 *)
(***************************************************************************)
C19_OnlySetChangesTheStore ==
    [][DispatchStep =>
          LET name == context_resp_command.name
              key == context_resp_command.parameters[1]
          IN  /\ is_replica' = is_replica
              /\ name \in {PING, ECHO, INFO, PSYNC, REPLCONF}
                     => context_db' = context_db
              /\ (name = GET /\ handle_command_result' = "Ok")
                     => /\ context_db[key].expiry \in {"none", "pending"}
                               => context_db' = context_db
                        /\ context_db' \in
                               {context_db, [context_db EXCEPT ![key] = NoEntry]}
              /\ context_db' # context_db
                     => \/ name = SET
                        \/ name = GET /\ context_db[key].expiry = "passed"
              /\ handle_command_result' = "Ok" => context_response' # <<>>
              /\ handle_command_result' # "Ok"
                     => context_response' = <<>> /\ context_db' = context_db]_vars

\* PSYNC was answered on a store that holds an entry, and the entry is
\* still there.
C19_Witness ==
    /\ context_pc = "returned"
    /\ context_resp_command.name = PSYNC
    /\ handle_command_result = "Ok"
    /\ context_response = EncodeSimpleString(FullResyncText)
    /\ context_db[KeyA] = Entry(ValueY, "pending")

(***************************************************************************)
(* C20: on every connection each read of at least one byte leads to one    *)
(* response written or to the connection closing with an error (an Err     *)
(* result or a panic of its task), and to nothing else: the responses      *)
(* written never outnumber these reads, a response is written only for a   *)
(* request that was read and not yet answered, a timeout or a read of      *)
(* zero bytes produces no response, and a read that carries two request    *)
(* frames is answered once, for its first frame.                           *)
(***************************************************************************)
C20_OneResponsePerRead ==
    /\ [](\A c \in Conns :
             /\ in_flight[c] \in {0, 1}
             /\ pc[c] = "closed" =>
                    (in_flight[c] = 1 <=> ExitResult(exit[c]) \in {"Err", "Panic"})
                        \/ (in_flight[c] = 0 /\ exit[c] = "read_error")
             /\ (pc[c] = "responding" /\ request_buffer[c] = FramePingThenEcho)
                    => command_response[c] = PongReply)
    /\ [][\A c \in Conns :
             /\ (pc[c] \in OpenPcs /\ in_flight'[c] < in_flight[c])
                    => /\ pc[c] = "responding" /\ pc'[c] = "reading"
                       /\ in_flight'[c] = in_flight[c] - 1
                       /\ read_result[c] = "bytes"
                       /\ command_response[c] # <<>>
             /\ (in_flight'[c] = in_flight[c] + 1 /\ pc[c] = "reading")
                    => in_flight[c] = 0 /\ read_result'[c] = "bytes"
             /\ (TimedOutStep(c) \/ ZeroBytesStep(c))
                    => /\ in_flight'[c] = in_flight[c]
                       /\ pc'[c] \in {"reading", "closed"}
                       /\ command_response'[c] = <<>>]_vars

\* One read carried PING and ECHO; the one response of it is "+PONG\r\n".
C20_Witness ==
    \E c \in Conns :
        /\ pc[c] = "responding"
        /\ request_buffer[c] = FramePingThenEcho
        /\ command_response[c] = PongReply
        /\ in_flight[c] = 1

=============================================================================
